---- MODULE Spec2Model ----
(***************************************************************************)
(* Incremental feed crawler of BilibiliHistoryFetcher:                     *)
(*   routers/dynamic.py       auto_fetch_all, stop_auto_fetch, registry    *)
(*   scripts/dynamic_db.py    save_normalized_dynamic_item, existence test *)
(*   scripts/dynamic_media.py download_images and its semaphore            *)
(*                                                                         *)
(* Encoding of Python values.  Strings that are identifiers, cursors or    *)
(* file paths are positive integers; 0 is the empty string '' and -1 is    *)
(* None, so bool(x) is x > 0 for every str-or-None value.  A TEXT column   *)
(* holding a comma-joined path list is the sequence of its paths, <<>> is  *)
(* '' and SqlNull is NULL.                                                 *)
(***************************************************************************)
EXTENDS Integers, Sequences, FiniteSets, TLC

VARIABLES
    feed,         \* remote: feed[o] = id of the newest item of owner o (items feed[o]..1)
    meta,         \* __host_meta.json of each owner: last_offset.offset, fully_fetched
    stop_events,  \* _stop_events: owner -> "absent" | "clear" | "set"
    progress,     \* _progress: owner -> NoProgress | snapshot
    db,           \* bilibili_dynamic.db: tables dynamic_core, dynamic_author, dynamic_stat
    run,          \* one record per auto_fetch_all coroutine slot
    now,          \* wall clock in seconds
    last_call,    \* history: the last call made on the Feed Store and its outcome
    dl,           \* one download_images call: tasks, semaphore, results
    disk          \* save_dir of the download calls shown step by step: the paths that hold a file

vars == <<feed, meta, stop_events, progress, db, run, now, last_call, dl, disk>>

(* ------------------------------ bounds --------------------------------- *)
NumOwners == 2
NumRuns == 2
FeedMax == 28
FeedGrowth == 3
PageSize == 12
MaxClock == 1
MaxUrls == 7
MaxNest == 2

(* ------------------------- program constants --------------------------- *)
DupThreshold == 10
DefaultConcurrency == 6

Owners == 1..NumOwners
Runs == 1..NumRuns

None == -1
EmptyStr == 0
NoneStr == 0 - 2
SqlNull == <<0>>

Truthy(x) == x > 0
OrEmpty(x) == IF Truthy(x) THEN x ELSE EmptyStr
StrOf(x) == IF x = None THEN NoneStr ELSE x
StrTruthy(s) == s > 0 \/ s = NoneStr

Min(a, b) == IF a < b THEN a ELSE b
Max(a, b) == IF a > b THEN a ELSE b

(* ----------------------------- Feed Store ------------------------------ *)
EmptyDb == [core |-> {}, author |-> {}, stat |-> {}]

SameKey(r, host_mid, id_str) == r.host_mid = StrOf(host_mid) /\ r.id_str = StrOf(id_str)

dynamic_core_exists(d, host_mid, id_str) ==
    \E r \in d.core : SameKey(r, host_mid, id_str)

\* id_str = item.get("id_str") or basic.get("id_str") or str(item.get("id"))
ResolveId(item) ==
    IF Truthy(item.id_str) THEN item.id_str
    ELSE IF Truthy(item.basic_id_str) THEN item.basic_id_str
    ELSE StrOf(item.id)

\* INSERT ... ON CONFLICT(host_mid, id_str) DO UPDATE SET every column = excluded
UpsertAppend(table, row) == table \cup {row}

Upsert(table, row) ==
    {r \in table : ~SameKey(r, row.host_mid, row.id_str)} \cup {row}

CoreRow(host_mid, item, t) ==
    [host_mid |-> StrOf(host_mid), id_str |-> StrOf(ResolveId(item)),
     body |-> item.body,
     media_locals |-> SqlNull, media_count |-> 0,
     live_media_locals |-> SqlNull, live_media_count |-> 0,
     fetch_time |-> t]

AuthorRow(host_mid, item) ==
    [host_mid |-> StrOf(host_mid), id_str |-> StrOf(ResolveId(item)), author |-> item.author]

StatRow(host_mid, item) ==
    [host_mid |-> StrOf(host_mid), id_str |-> StrOf(ResolveId(item)), stat |-> item.stat]

\* The result of one call: the tables afterwards and whether the call raised.
\* An item whose module_author is not an object makes module_author.get raise
\* before the first INSERT.
save_normalized_dynamic_item(d, host_mid, item, t) ==
    IF ~StrTruthy(ResolveId(item)) THEN [db |-> d, raised |-> FALSE]
    ELSE IF item.shape = "bad_author" THEN [db |-> d, raised |-> TRUE]
    ELSE [db |-> [core   |-> Upsert(d.core, CoreRow(host_mid, item, t)),
                  author |-> Upsert(d.author, AuthorRow(host_mid, item)),
                  stat   |-> Upsert(d.stat, StatRow(host_mid, item))],
          raised |-> FALSE]

Join(paths) == paths

IsBlank(col) == col = SqlNull \/ col = <<>>

\* UPDATE dynamic_core SET media_locals = CASE WHEN blank THEN ? ELSE media_locals END, ...
WriteBack(d, host_mid, id_str, predicted_locals, live_predicted_locals) ==
    [d EXCEPT !.core =
        {IF SameKey(r, host_mid, id_str)
            THEN [r EXCEPT
                    !.media_locals = IF IsBlank(r.media_locals)
                                        THEN Join(predicted_locals) ELSE r.media_locals,
                    !.live_media_locals = IF IsBlank(r.live_media_locals)
                                        THEN Join(live_predicted_locals)
                                        ELSE r.live_media_locals,
                    !.live_media_count = Len(live_predicted_locals)]
            ELSE r : r \in d.core}]

\* The crawl loop's per-item persistence: upsert, then write the media paths back.
\* An exception of the upsert is caught and logged.
PersistItem(d, host_mid, item, predicted_locals, live_predicted_locals, t) ==
    LET res == save_normalized_dynamic_item(d, host_mid, item, t) IN
    IF res.raised THEN d
    ELSE IF predicted_locals # <<>> \/ live_predicted_locals # <<>>
         THEN WriteBack(res.db, host_mid, ResolveId(item),
                        predicted_locals, live_predicted_locals)
         ELSE res.db

(* ------------------------ remote feed (environment) -------------------- *)
\* Items of the feed that the mapper cannot store: module_author is null.
BadIds == {2, FeedMax - 2}

\* Items whose rich text holds an emoji node with a text that is not a string:
\* collect_emoji_urls raises on text.strip.
EmojiBadIds == {FeedMax - FeedGrowth - PageSize + 2}

\* The payload the remote API serves for item id: the fields the crawler reads.
FeedItem(id) ==
    [id_str |-> id, basic_id_str |-> None, id |-> None,
     shape |-> IF id \in BadIds THEN "bad_author"
               ELSE IF id \in EmojiBadIds THEN "bad_emoji" ELSE "ok",
     body |-> 0, author |-> 0, stat |-> 0,
     images |-> IF id % PageSize = 0 THEN <<id>> ELSE <<>>,
     live |-> <<>>, emoji |-> <<>>]

Descending(from, count) == [i \in 1..count |-> from - i + 1]

\* One page of a newest-first feed whose newest item is n, for a request that
\* carries offset c (NoOffsetParam: the parameter is omitted), ps items a page.
\* data.offset is the id of the last item served, '' when nothing is older;
\* it arrives bare or nested in an object under the key "offset".
NoOffsetParam == 0 - 3

PageResponse(n, c, ps, nested) ==
    LET first == IF c = NoOffsetParam THEN n ELSE c - 1
        k     == Min(ps, first)
        tok   == IF first - k >= 1 THEN first - k + 1 ELSE EmptyStr
    IN [has_data |-> TRUE,
        items |-> [i \in 1..k |-> FeedItem(Descending(first, k)[i])],
        offset |-> [is_dict |-> nested, v |-> tok]]

\* HTTP 200 with a JSON body that has no usable "data" object.
NoDataResponse == [has_data |-> FALSE, items |-> <<>>, offset |-> [is_dict |-> FALSE, v |-> None]]

(* ------------------------- crawl state file ---------------------------- *)
DefaultMeta == [last_fetch_time |-> 0, offset |-> EmptyStr, fully_fetched |-> FALSE]

\* start_from_head and next_offset as auto_fetch_all derives them from the file
StartFromHead(m) == m.fully_fetched

StartOffsetAlwaysHead(m) == None

StartOffset(m) == IF StartFromHead(m) THEN None
                  ELSE IF Truthy(m.offset) THEN m.offset ELSE None

PageMetaNeverFull(next_offset, t) ==
    [last_fetch_time |-> t, offset |-> OrEmpty(next_offset), fully_fetched |-> FALSE]

\* the record written after a page
PageMeta(next_offset, t) ==
    [last_fetch_time |-> t, offset |-> OrEmpty(next_offset),
     fully_fetched |-> ~Truthy(next_offset)]

(* -------------------- progress and control registry -------------------- *)
NoProgress == [page |-> None]

IdleProgress == [page |-> 0, total_items |-> 0, last_offset |-> EmptyStr, message |-> "idle"]

SetProgressKeepsPage(p, host_mid, page, total_items, last_offset, message) ==
    [p EXCEPT ![host_mid] =
        [page |-> IF p[host_mid] = NoProgress THEN page ELSE Max(page, p[host_mid].page),
         total_items |-> total_items,
         last_offset |-> OrEmpty(last_offset), message |-> message]]

SetProgress(p, host_mid, page, total_items, last_offset, message) ==
    [p EXCEPT ![host_mid] = [page |-> page, total_items |-> total_items,
                             last_offset |-> OrEmpty(last_offset), message |-> message]]

GetProgress(p, host_mid) == IF p[host_mid] = NoProgress THEN IdleProgress ELSE p[host_mid]

ClearEventNoop(ev, host_mid) == ev

ClearEventAll(ev, host_mid) ==
    [o \in DOMAIN ev |-> IF ev[o] # "absent" THEN "clear" ELSE ev[o]]

ClearEvent(ev, host_mid) ==
    IF ev[host_mid] # "absent" THEN [ev EXCEPT ![host_mid] = "clear"] ELSE ev

GetOrCreateEvent(ev, host_mid) ==
    IF ev[host_mid] = "absent" THEN [ev EXCEPT ![host_mid] = "clear"] ELSE ev

(* --------------------------- crawl loop -------------------------------- *)
\* data.offset normalised to a plain token
NormalizeOffset(off) == IF off.is_dict THEN off.v ELSE off.v

RECURSIVE DedupScanOffByOne(_, _, _, _, _)
DedupScanOffByOne(items, i, count, d, host_mid) ==
    IF i > Len(items) THEN [count |-> count, hit |-> FALSE]
    ELSE LET id_str == ResolveId(items[i]) IN
         IF StrTruthy(id_str) /\ dynamic_core_exists(d, host_mid, StrOf(id_str))
         THEN IF count + 1 > DupThreshold
              THEN [count |-> count + 1, hit |-> TRUE]
              ELSE DedupScanOffByOne(items, i + 1, count + 1, d, host_mid)
         ELSE DedupScanOffByOne(items, i + 1, 0, d, host_mid)

RECURSIVE DedupScanNoReset(_, _, _, _, _)
DedupScanNoReset(items, i, count, d, host_mid) ==
    IF i > Len(items) THEN [count |-> count, hit |-> FALSE]
    ELSE LET id_str == ResolveId(items[i]) IN
         IF StrTruthy(id_str) /\ dynamic_core_exists(d, host_mid, StrOf(id_str))
         THEN IF count + 1 >= DupThreshold
              THEN [count |-> count + 1, hit |-> TRUE]
              ELSE DedupScanNoReset(items, i + 1, count + 1, d, host_mid)
         ELSE DedupScanNoReset(items, i + 1, count, d, host_mid)

RECURSIVE DedupScanPerPage(_, _, _, _, _)
DedupScanPerPage(items, i, count, d, host_mid) ==
    LET c == IF i = 1 THEN 0 ELSE count IN
    IF i > Len(items) THEN [count |-> c, hit |-> FALSE]
    ELSE LET id_str == ResolveId(items[i]) IN
         IF StrTruthy(id_str) /\ dynamic_core_exists(d, host_mid, StrOf(id_str))
         THEN IF c + 1 >= DupThreshold
              THEN [count |-> c + 1, hit |-> TRUE]
              ELSE DedupScanPerPage(items, i + 1, c + 1, d, host_mid)
         ELSE DedupScanPerPage(items, i + 1, 0, d, host_mid)

\* The duplicate scan of a from-head run over one page, from item i on, with
\* the counter at count: the counter afterwards and whether the threshold hit.
RECURSIVE DedupScan(_, _, _, _, _)
DedupScan(items, i, count, d, host_mid) ==
    IF i > Len(items) THEN [count |-> count, hit |-> FALSE]
    ELSE LET id_str == ResolveId(items[i]) IN
         IF StrTruthy(id_str) /\ dynamic_core_exists(d, host_mid, StrOf(id_str))
         THEN IF count + 1 >= DupThreshold
              THEN [count |-> count + 1, hit |-> TRUE]
              ELSE DedupScan(items, i + 1, count + 1, d, host_mid)
         ELSE DedupScan(items, i + 1, 0, d, host_mid)

PersistStageNever(save_to_db, items) == FALSE

\* if save_to_db and items: the page goes through the per-item persistence
PersistStage(save_to_db, items) == save_to_db /\ items # <<>>

DedupArmedOnResume(rn) == rn.save_to_db

DedupArmed(rn) == rn.start_from_head /\ rn.save_to_db

\* Local paths the harvest records for an item: every predicted image path,
\* plus the emoji files that downloaded; the live pairs that downloaded.
PredictedLocals(item, save_media, emoji_ok) ==
    IF save_media THEN item.images \o SelectSeq(item.emoji, LAMBDA e : e \in emoji_ok)
    ELSE <<>>

LivePredictedLocals(item, save_media, live_ok) ==
    IF save_media THEN SelectSeq(item.live, LAMBDA e : e \in live_ok) ELSE <<>>

IdleRun ==
    [pc |-> "idle", host_mid |-> 0, save_to_db |-> FALSE, save_media |-> FALSE,
     start_from_head |-> FALSE, next_offset |-> None, params_offset |-> NoOffsetParam,
     consecutive_duplicates |-> 0, current_page |-> 0, all_items |-> <<>>,
     items |-> <<>>, idx |-> 0, prev_end |-> "idle", stale_stop |-> FALSE]

Ended(rn) == rn.pc \in {"idle", "completed", "stopped", "error"}

ParamsOffset(next_offset) == IF Truthy(next_offset) THEN next_offset ELSE NoOffsetParam

\* auto_fetch_all up to its first await: load the state file, choose the start
\* point, reset the stop signal, reset the progress, set the request parameters.
StartRun(r, o, save_to_db, save_media) ==
    /\ Ended(run[r])
    /\ LET off == StartOffset(meta[o]) IN
       /\ run' = [run EXCEPT ![r] =
            [pc |-> "request", host_mid |-> o, save_to_db |-> save_to_db,
             save_media |-> save_media, start_from_head |-> StartFromHead(meta[o]),
             next_offset |-> off, params_offset |-> ParamsOffset(off),
             consecutive_duplicates |-> 0, current_page |-> 0, all_items |-> <<>>,
             items |-> <<>>, idx |-> 0,
             \* history, read by no action: how the slot's previous run ended and
             \* whether the stop signal was still set when this run began
             prev_end |-> run[r].pc, stale_stop |-> stop_events[o] = "set"]]
       /\ stop_events' = GetOrCreateEvent(ClearEvent(stop_events, o), o)
       /\ progress' = SetProgress(progress, o, 0, 0, off, "prepare_start")
    /\ UNCHANGED <<feed, meta, db, now, last_call, dl, disk>>

ExtendAllReplaces(all_items, items) == [i \in 1..Len(items) |-> ResolveId(items[i])]

\* all_items.extend(items), the items kept by their identifiers
ExtendAll(all_items, items) == all_items \o [i \in 1..Len(items) |-> ResolveId(items[i])]

\* The page arrives: parse it, run the duplicate scan, extend all_items,
\* count the page and publish the progress.
ReceivePage(r, resp) ==
    LET rn   == run[r]
        o    == rn.host_mid
        off  == NormalizeOffset(resp.offset)
    IN
    \E scan \in {IF DedupArmed(rn)
                 THEN DedupScan(resp.items, 1, rn.consecutive_duplicates, db, o)
                 ELSE [count |-> rn.consecutive_duplicates, hit |-> FALSE]} :
    \E next_offset \in {IF scan.hit THEN None ELSE off} :
    \E items \in {IF scan.hit THEN <<>> ELSE resp.items} :
    \E all \in {ExtendAll(rn.all_items, items)} :
    /\ run' = [run EXCEPT ![r] =
            [rn EXCEPT !.pc = IF PersistStage(rn.save_to_db, items) THEN "items" ELSE "persist",
                       !.next_offset = next_offset,
                       !.consecutive_duplicates = scan.count,
                       !.current_page = rn.current_page + 1,
                       !.all_items = all,
                       !.items = items,
                       !.idx = 1]]
    /\ progress' = SetProgress(progress, o, rn.current_page + 1, Len(all),
                               next_offset, "page_done")
    /\ UNCHANGED <<feed, meta, stop_events, db, now, last_call, dl, disk>>

FetchPage(r) ==
    /\ run[r].pc = "request"
    /\ \E nested \in BOOLEAN :
       \E resp \in {PageResponse(feed[run[r].host_mid], run[r].params_offset,
                                 PageSize, nested)} :
          ReceivePage(r, resp)

FetchNoData(r) ==
    /\ run[r].pc = "request"
    /\ ReceivePage(r, NoDataResponse)

FetchFailRewinds(r) ==
    /\ run[r].pc = "request"
    /\ run' = [run EXCEPT ![r].pc = "error"]
    /\ meta' = [meta EXCEPT ![run[r].host_mid] = DefaultMeta]
    /\ UNCHANGED <<feed, stop_events, progress, db, now, last_call, dl, disk>>

\* fetch_dynamic_data raises (transport error, status other than 200, body
\* that is not JSON): the exception leaves auto_fetch_all through its finally.
FetchFail(r) ==
    /\ run[r].pc = "request"
    /\ run' = [run EXCEPT ![r].pc = "error"]
    /\ UNCHANGED <<feed, meta, stop_events, progress, db, now, last_call, dl, disk>>

\* the media harvest of an item raises (only attempted with save_media)
HarvestRaises(item, save_media) == save_media /\ item.shape = "bad_emoji"

\* the item's try block is left through one of its except clauses
ItemRaises(d, host_mid, item, save_media, t) ==
    \/ HarvestRaises(item, save_media)
    \/ save_normalized_dynamic_item(d, host_mid, item, t).raised

ProcessItemAborts(r) ==
    LET rn   == run[r]
        item == rn.items[rn.idx]
    IN
    /\ rn.pc = "items"
    /\ db' = db
    /\ run' = [run EXCEPT ![r].idx = rn.idx + 1,
                          ![r].pc = IF ItemRaises(db, rn.host_mid, item, rn.save_media, now)
                                    THEN "error"
                                    ELSE IF rn.idx = Len(rn.items) THEN "persist" ELSE "items"]
    /\ UNCHANGED <<feed, meta, stop_events, progress, now, last_call, dl, disk>>

\* One item of the page: harvest its media, upsert it, write the paths back.
\* Whatever the harvest or the store raises is logged and the loop goes on.
ProcessItem(r) ==
    LET rn   == run[r]
        item == rn.items[rn.idx]
    IN
    /\ rn.pc = "items"
    /\ db' = IF StrTruthy(ResolveId(item)) /\ ~HarvestRaises(item, rn.save_media)
             THEN PersistItem(db, rn.host_mid, item,
                              PredictedLocals(item, rn.save_media, {}),
                              LivePredictedLocals(item, rn.save_media, {}), now)
             ELSE db
    /\ run' = [run EXCEPT ![r].idx = rn.idx + 1,
                          ![r].pc = IF rn.idx = Len(rn.items) THEN "persist" ELSE "items"]
    /\ UNCHANGED <<feed, meta, stop_events, progress, now, last_call, dl, disk>>

PersistPageIgnoresStop(r) ==
    LET rn == run[r]
        o  == rn.host_mid
        n  == Len(rn.all_items)
    IN
    /\ rn.pc = "persist"
    /\ meta' = [meta EXCEPT ![o] = [last_fetch_time |-> now, offset |-> OrEmpty(rn.next_offset),
                                     fully_fetched |-> ~Truthy(rn.next_offset)]]
    /\ IF ~Truthy(rn.next_offset)
       THEN /\ progress' = SetProgress(progress, o, rn.current_page, n, rn.next_offset, "all_done")
            /\ run' = [run EXCEPT ![r].pc = "completed"]
       ELSE /\ progress' = SetProgress(progress, o, rn.current_page, n, rn.next_offset, "prepare_next")
            /\ run' = [run EXCEPT ![r].pc = "request",
                                  ![r].params_offset = ParamsOffset(rn.next_offset)]
    /\ UNCHANGED <<feed, stop_events, db, now, last_call, dl, disk>>

PersistPageStopFirst(r) ==
    LET rn == run[r]
        o  == rn.host_mid
        n  == Len(rn.all_items)
    IN
    /\ rn.pc = "persist"
    /\ IF stop_events[o] = "set"
       THEN /\ meta' = [meta EXCEPT ![o] = [last_fetch_time |-> now,
                                            offset |-> OrEmpty(rn.next_offset),
                                            fully_fetched |-> FALSE]]
            /\ progress' = SetProgress(progress, o, rn.current_page, n, rn.next_offset, "user_stopped")
            /\ run' = [run EXCEPT ![r].pc = "stopped"]
       ELSE IF ~Truthy(rn.next_offset)
       THEN /\ meta' = [meta EXCEPT ![o] = PageMeta(rn.next_offset, now)]
            /\ progress' = SetProgress(progress, o, rn.current_page, n, rn.next_offset, "all_done")
            /\ run' = [run EXCEPT ![r].pc = "completed"]
       ELSE /\ meta' = [meta EXCEPT ![o] = PageMeta(rn.next_offset, now)]
            /\ progress' = SetProgress(progress, o, rn.current_page, n, rn.next_offset, "prepare_next")
            /\ run' = [run EXCEPT ![r].pc = "request",
                                  ![r].params_offset = ParamsOffset(rn.next_offset)]
    /\ UNCHANGED <<feed, stop_events, db, now, last_call, dl, disk>>

\* Write the state file, then the terminal check, the stop check, or the top
\* of the next iteration (request parameters, progress) up to its await.
PersistPage(r) ==
    LET rn == run[r]
        o  == rn.host_mid
        n  == Len(rn.all_items)
    IN
    /\ rn.pc = "persist"
    /\ meta' = [meta EXCEPT ![o] = PageMeta(rn.next_offset, now)]
    /\ IF ~Truthy(rn.next_offset)
       THEN /\ progress' = SetProgress(progress, o, rn.current_page, n, rn.next_offset, "all_done")
            /\ run' = [run EXCEPT ![r].pc = "completed"]
       ELSE IF stop_events[o] = "set"
       THEN /\ progress' = SetProgress(progress, o, rn.current_page, n, rn.next_offset, "user_stopped")
            /\ run' = [run EXCEPT ![r].pc = "stopped"]
       ELSE /\ progress' = SetProgress(progress, o, rn.current_page, n, rn.next_offset, "prepare_next")
            /\ run' = [run EXCEPT ![r].pc = "request",
                                  ![r].params_offset = ParamsOffset(rn.next_offset)]
    /\ UNCHANGED <<feed, stop_events, db, now, last_call, dl, disk>>

StopToggles(ev, host_mid) ==
    [GetOrCreateEvent(ev, host_mid) EXCEPT
        ![host_mid] = IF ev[host_mid] = "set" THEN "clear" ELSE "set"]

\* ev = _get_or_create_event(host_mid); ev.set()
SetStopEvent(ev, host_mid) ==
    [GetOrCreateEvent(ev, host_mid) EXCEPT ![host_mid] = "set"]

\* stop_auto_fetch
RequestStop(o) ==
    /\ stop_events' = SetStopEvent(stop_events, o)
    /\ UNCHANGED <<feed, meta, progress, db, run, now, last_call, dl, disk>>

\* the owner publishes a new item
NewItem(o) ==
    /\ feed[o] < FeedMax
    /\ feed' = [feed EXCEPT ![o] = feed[o] + 1]
    /\ UNCHANGED <<meta, stop_events, progress, db, run, now, last_call, dl, disk>>

NoCall == [op |-> "none"]

NoDownload == [pc |-> "idle", urls |-> <<>>, unique_urls |-> <<>>, sem |-> 0,
               limit |-> 0, task |-> <<>>]

InitCrawl ==
    /\ feed = [o \in Owners |-> FeedMax - FeedGrowth]
    /\ meta = [o \in Owners |-> DefaultMeta]
    /\ stop_events = [o \in Owners |-> "absent"]
    /\ progress = [o \in Owners |-> NoProgress]
    /\ db = EmptyDb
    /\ run = [r \in Runs |-> IdleRun]
    /\ now = 0
    /\ last_call = NoCall
    /\ dl = NoDownload
    /\ disk = {}

\* One owner crawled by one coroutine at a time.
NextCrawl ==
    \/ \E save_to_db \in BOOLEAN : StartRun(1, 1, save_to_db, TRUE)
    \/ FetchPage(1)
    \/ FetchNoData(1)
    \/ FetchFail(1)
    \/ ProcessItem(1)
    \/ PersistPage(1)
    \/ RequestStop(1)
    \/ NewItem(1)

Spec == InitCrawl /\ [][NextCrawl]_vars

(* ===================== claims on the crawl loop ======================== *)
\* the page the remote serves for the request run r is about to issue
ExpectedPage(r) ==
    PageResponse(feed[run[r].host_mid], run[r].params_offset, PageSize, FALSE)

InStore(o, item) == dynamic_core_exists(db, o, ResolveId(item))

ExistPattern(o, items) == [i \in 1..Len(items) |-> InStore(o, items[i])]

Starts(r) == Ended(run[r]) /\ run'[r].pc = "request"

\* C1: a run that the stop signal ends after a page whose next cursor is c
\* leaves the state file at cursor = c, fully_fetched = false, and the next
\* run of the same owner issues its first request with offset = c.
C1_ResumeAfterStop ==
    [][\A r \in Runs :
        /\ (run[r].pc = "persist" /\ run'[r].pc = "stopped") =>
              /\ Truthy(run[r].next_offset)
              /\ meta'[run[r].host_mid].offset = run[r].next_offset
              /\ ~meta'[run[r].host_mid].fully_fetched
        /\ (Starts(r) /\ run[r].pc = "stopped" /\ run'[r].host_mid = run[r].host_mid) =>
              /\ run'[r].params_offset = run[r].next_offset
              /\ ~run'[r].start_from_head
       ]_vars

\* a run stopped after the first of three pages, and its successor about to
\* request with that page's cursor
C1_Witness ==
    /\ run[1].pc = "request" /\ run[1].current_page = 0
    /\ run[1].prev_end = "stopped"
    /\ Cardinality(db.core) = PageSize
    /\ run[1].params_offset = feed[1] - PageSize + 1
    /\ run[1].params_offset - 1 > PageSize
    /\ meta[1].offset = run[1].params_offset /\ ~meta[1].fully_fetched

FirstTenExist(r) ==
    LET pg == ExpectedPage(r).items IN
    /\ Len(pg) >= DupThreshold
    /\ \A i \in 1..DupThreshold : InStore(run[r].host_mid, pg[i])

HeadRestartStops(r, armed) ==
    /\ (FetchPage(r) /\ run[r].start_from_head /\ armed /\ run[r].current_page = 0
          /\ FirstTenExist(r)) =>
            /\ run'[r].pc = "persist" /\ run'[r].items = <<>>
            /\ ~Truthy(run'[r].next_offset)
            /\ db' = db
    /\ (PersistPage(r) /\ run[r].start_from_head /\ armed /\ run[r].current_page = 1
          /\ run[r].consecutive_duplicates >= DupThreshold) =>
            /\ run'[r].pc = "completed"
            /\ db' = db
            /\ meta'[run[r].host_mid].fully_fetched
            /\ meta'[run[r].host_mid].offset = EmptyStr

ResetPattern == <<TRUE, TRUE, FALSE>> \o [i \in 1..(DupThreshold - 1) |-> TRUE]

WellFormed(item) == item.shape = "ok"

\* the number of stored items that end the page, counted without the scan
TrailingStored(o, items) ==
    LET fresh == {i \in 1..Len(items) : ~InStore(o, items[i])} IN
    Len(items) - (CHOOSE m \in fresh : \A i \in fresh : i <= m)

CounterReset(r, armed, carried_ok) ==
    /\ (FetchPage(r) /\ run[r].start_from_head /\ armed /\ run'[r].items # <<>>
          /\ \E i \in 1..Len(run'[r].items) : ~InStore(run[r].host_mid, run'[r].items[i])) =>
            run'[r].consecutive_duplicates = TrailingStored(run[r].host_mid, run'[r].items)
    /\ (FetchPage(r) /\ run[r].start_from_head /\ armed /\ carried_ok
          /\ ExistPattern(run[r].host_mid, ExpectedPage(r).items) = ResetPattern) =>
            /\ run'[r].items = ExpectedPage(r).items
            /\ run'[r].next_offset = ExpectedPage(r).offset.v
            /\ run'[r].consecutive_duplicates = DupThreshold - 1
            /\ run'[r].pc = "items"
    /\ (ProcessItem(r) /\ run[r].start_from_head /\ armed /\ run'[r].pc = "persist") =>
            \A i \in 1..Len(run[r].items) :
                WellFormed(run[r].items[i]) =>
                    dynamic_core_exists(db', run[r].host_mid, ResolveId(run[r].items[i]))

C3_CounterResetWhenStoring ==
    [][\A r \in Runs : CounterReset(r, run[r].save_to_db, TRUE)]_vars

C4_StopSignalFresh ==
    [][/\ \A r \in Runs : Starts(r) => stop_events'[run'[r].host_mid] = "clear"
       /\ \A o \in Owners :
            (stop_events'[o] = "set" /\ stop_events[o] # "set") => RequestStop(o)
       /\ \A r \in Runs :
            (PersistPage(r) /\ stop_events[run[r].host_mid] # "set") =>
                run'[r].pc # "stopped"
      ]_vars

\* stop was requested before any run existed; the run that started afterwards
\* passed its first page boundary and goes on to the second page
C4_Witness ==
    /\ run[1].stale_stop /\ run[1].prev_end = "idle"
    /\ run[1].pc = "request" /\ run[1].current_page = 1
    /\ stop_events[1] = "clear"

\* C7: a failed page fetch ends the run as an error without touching the state
\* file or the store; the file is as written after the run's last page; the
\* failed run issues no further request; the next run resumes from that cursor.
C7_FetchFailureKeepsState ==
    [][\A r \in Runs :
        /\ (run[r].pc = "request" /\ run'[r].pc # "request" /\ run'[r].current_page = run[r].current_page) =>
              /\ run'[r].pc = "error"
              /\ meta' = meta /\ db' = db
              /\ run[r].current_page > 0 =>
                    /\ meta[run[r].host_mid].offset = run[r].next_offset
                    /\ ~meta[run[r].host_mid].fully_fetched
        /\ (run[r].pc = "error" /\ run'[r] # run[r]) => Starts(r) /\ run'[r].current_page = 0
        /\ (Starts(r) /\ run[r].pc = "error" /\ run'[r].host_mid = run[r].host_mid) =>
              IF run[r].current_page > 0
              THEN run'[r].params_offset = run[r].next_offset /\ ~run'[r].start_from_head
              ELSE /\ run'[r].params_offset = run[r].params_offset
                   /\ run'[r].start_from_head = run[r].start_from_head
       ]_vars

\* a run whose second request failed, and its successor resuming at the cursor
\* of the first page
C7_Witness ==
    /\ run[1].prev_end = "error" /\ run[1].pc = "request" /\ run[1].current_page = 0
    /\ Truthy(meta[1].offset) /\ run[1].params_offset = meta[1].offset
    /\ Cardinality(db.core) = PageSize

\* C9: the cursor a page leaves in the run is the page's normalised cursor, or
\* none when the duplicate threshold fired, and the record written for the page
\* holds that cursor ('' for none) with fully_fetched = (cursor is '').
C9_PageStateWritten ==
    [][\A r \in Runs :
        /\ \A nested \in BOOLEAN :
            LET resp == PageResponse(feed[run[r].host_mid], run[r].params_offset,
                                     PageSize, nested) IN
            (run[r].pc = "request" /\ ReceivePage(r, resp)) =>
              \/ run'[r].next_offset = resp.offset.v
              \/ /\ run'[r].next_offset = None
                 /\ run'[r].consecutive_duplicates >= DupThreshold
        /\ PersistPage(r) =>
              /\ meta'[run[r].host_mid].offset = OrEmpty(run[r].next_offset)
              /\ meta'[run[r].host_mid].fully_fetched
                    <=> (meta'[run[r].host_mid].offset = EmptyStr)
       ]_vars

\* the three pages of a full crawl are done and the last record says so
C9_Witness ==
    /\ run[1].pc = "completed" /\ run[1].current_page = 3
    /\ ~run[1].start_from_head
    /\ meta[1].fully_fetched /\ meta[1].offset = EmptyStr

PageGranularStop(r, storing) ==
    (run[r].pc = "persist" /\ run'[r].pc = "stopped") =>
        /\ stop_events[run[r].host_mid] = "set"
        /\ storing =>
             /\ run[r].idx = Len(run[r].items) + 1
             /\ \A i \in 1..Len(run[r].items) :
                  WellFormed(run[r].items[i]) => InStore(run[r].host_mid, run[r].items[i])
        /\ Truthy(run[r].next_offset)
        /\ meta'[run[r].host_mid].offset = run[r].next_offset
        /\ ~meta'[run[r].host_mid].fully_fetched

StoreItem(f, sh, b) ==
    [id_str |-> f[1], basic_id_str |-> f[2], id |-> f[3], shape |-> sh,
     body |-> b, author |-> 0, stat |-> 0,
     images |-> <<>>, live |-> <<>>, emoji |-> <<>>]

\* payloads handed to the store: the id in id_str (with two bodies), only in
\* basic.id_str, or nowhere; and one whose module_author is null
StoreItems ==
    {StoreItem(<<1, None, None>>, "ok", 0), StoreItem(<<1, None, None>>, "ok", 1),
     StoreItem(<<None, 1, None>>, "ok", 0), StoreItem(<<None, None, None>>, "ok", 0),
     StoreItem(<<1, None, None>>, "bad_author", 0)}

\* media path lists a harvest can come back with
PathLists == {<<>>, <<5>>, <<6>>}
LivePathLists == {<<>>, <<7, 8>>}

SameCall(c, op, host_mid, item) ==
    c.op = op /\ c.host_mid = host_mid /\ c.item = item

\* save_normalized_dynamic_item(conn, host_mid, item)
SaveItem(o, item) ==
    LET res == save_normalized_dynamic_item(db, o, item, now) IN
    /\ db' = res.db
    /\ last_call' = [op |-> "save", host_mid |-> o, item |-> item, raised |-> res.raised,
                     again |-> SameCall(last_call, "save", o, item)]
    /\ UNCHANGED <<feed, meta, stop_events, progress, run, now, dl, disk>>

\* the crawl loop's upsert plus media-path write-back for one item
IngestItem(o, item, predicted_locals, live_predicted_locals) ==
    /\ db' = IF StrTruthy(ResolveId(item))
             THEN PersistItem(db, o, item, predicted_locals, live_predicted_locals, now)
             ELSE db
    /\ last_call' = [op |-> "ingest", host_mid |-> o, item |-> item,
                     raised |-> save_normalized_dynamic_item(db, o, item, now).raised,
                     again |-> SameCall(last_call, "ingest", o, item)]
    /\ UNCHANGED <<feed, meta, stop_events, progress, run, now, dl, disk>>

Tick ==
    /\ now < MaxClock
    /\ now' = now + 1
    /\ UNCHANGED <<feed, meta, stop_events, progress, db, run, last_call, dl, disk>>

NextStore ==
    \/ \E item \in StoreItems : SaveItem(1, item)
    \/ \E item \in StoreItems, pl \in PathLists, lpl \in LivePathLists :
          IngestItem(1, item, pl, lpl)
    \/ Tick

SpecStore == InitCrawl /\ [][NextStore]_vars

RowsOf(table, o, item) == {r \in table : SameKey(r, o, ResolveId(item))}

TheRow(table, o, item) == CHOOSE r \in RowsOf(table, o, item) : TRUE

WriteOnce(o, item, pl, lpl) ==
    (IngestItem(o, item, pl, lpl) /\ RowsOf(db.core, o, item) # {}) =>
        LET old == TheRow(db.core, o, item) IN
        /\ ~IsBlank(old.media_locals) =>
              /\ RowsOf(db'.core, o, item) # {}
              /\ TheRow(db'.core, o, item).media_locals = old.media_locals
        /\ ~IsBlank(old.live_media_locals) =>
              /\ RowsOf(db'.core, o, item) # {}
              /\ TheRow(db'.core, o, item).live_media_locals = old.live_media_locals

\* C5: once the row of (owner, item_id) has a non-empty media_locals or
\* live_media_locals, ingesting the item again (upsert plus write-back) with any
\* media path set leaves the stored value as it was.
C5_WriteOnceMediaPaths ==
    [][\A o \in Owners, item \in StoreItems, pl \in PathLists, lpl \in LivePathLists :
          WriteOnce(o, item, pl, lpl)]_vars

SecondSave(o, item) == SaveItem(o, item) /\ SameCall(last_call, "save", o, item)

OneRowEach(d, o, item) ==
    /\ Cardinality(RowsOf(d.core, o, item)) = 1
    /\ Cardinality(RowsOf(d.author, o, item)) = 1
    /\ Cardinality(RowsOf(d.stat, o, item)) = 1

Responses == {"ok", "bad_status", "not_image", "error"}

\* Local file names.  An image keeps the base name of its URL (image URL u
\* stands for .../u.jpg), a live leg is named by the hash of its URL, an emoji
\* by its sanitised text.
ImagePath(u) == [kind |-> "name", v |-> u]

LiveImagePath(u) == [kind |-> "hash_img", v |-> u]

LiveVideoPath(u) == [kind |-> "hash_mp4", v |-> u]

\* re.sub of the characters a file name cannot hold: texts 2k - 1 and 2k
\* stand for two texts that differ in such a character only
SafeName(text) == IF text % 2 = 0 THEN text - 1 ELSE text

EmojiPath(text) == [kind |-> "emoji", v |-> SafeName(text)]

\* _download_one: the GET is always issued; the file is written for a 200
\* response with an image content type
download_one(files, url, resp) ==
    [requests |-> <<url>>, paths |-> {ImagePath(url)},
     success |-> resp = "ok",
     files |-> IF resp = "ok" THEN files \cup {ImagePath(url)} ELSE files]

\* One leg of a live pair: skipped when its file exists, else requested and
\* written on a 200 response (the content type is not looked at).
LiveLeg(files, url, path, resp) ==
    IF path \in files
    THEN [requests |-> <<>>, success |-> TRUE, raised |-> FALSE, files |-> files]
    ELSE [requests |-> <<url>>,
          success |-> resp \in {"ok", "not_image"},
          raised |-> resp = "error",
          files |-> IF resp \in {"ok", "not_image"} THEN files \cup {path} ELSE files]

\* _download_live_media: the image leg, then the video leg; an exception in
\* either leg ends the pair as failed
download_live_media_one(files, image_url, video_url, resp_i, resp_v) ==
    LET img == LiveLeg(files, image_url, LiveImagePath(image_url), resp_i)
        vid == LiveLeg(img.files, video_url, LiveVideoPath(video_url), resp_v)
        paths == {LiveImagePath(image_url), LiveVideoPath(video_url)}
    IN
    IF img.raised
    THEN [requests |-> img.requests, paths |-> paths, success |-> FALSE, files |-> img.files]
    ELSE [requests |-> img.requests \o vid.requests, paths |-> paths,
          success |-> ~vid.raised /\ img.success /\ vid.success,
          files |-> vid.files]

\* _download_emoji
download_emoji_one(files, emoji_url, emoji_text, resp) ==
    IF EmojiPath(emoji_text) \in files
    THEN [requests |-> <<>>, paths |-> {EmojiPath(emoji_text)}, success |-> TRUE,
          files |-> files]
    ELSE [requests |-> <<emoji_url>>, paths |-> {EmojiPath(emoji_text)},
          success |-> resp \in {"ok", "not_image"},
          files |-> IF resp \in {"ok", "not_image"}
                    THEN files \cup {EmojiPath(emoji_text)} ELSE files]

(* ========================= download_images ============================= *)
\* list(dict.fromkeys(urls)): first occurrences, in order
RECURSIVE UniqueUrls(_)
UniqueUrls(urls) ==
    IF urls = <<>> THEN <<>>
    ELSE LET rest == UniqueUrls(SubSeq(urls, 1, Len(urls) - 1))
             u == urls[Len(urls)] IN
         IF \E i \in 1..Len(rest) : rest[i] = u THEN rest ELSE Append(rest, u)

\* URL lists handed in: n distinct URLs, or those followed by the first again
UrlList(n, repeated) ==
    [i \in 1..(IF repeated /\ n > 0 THEN n + 1 ELSE n) |-> IF i = n + 1 THEN 1 ELSE i]

UrlLists == {UrlList(n, d) : n \in 0..MaxUrls, d \in BOOLEAN}

\* every caller leaves the default; smaller limits make the semaphore bite sooner
Concurrencies == {1, 2, DefaultConcurrency}

\* download_images(urls, save_dir, concurrency) up to the gather: an empty list
\* returns at once, otherwise one task per unique URL waits on Semaphore(concurrency)
CallDownload(urls, concurrency) ==
    /\ dl.pc = "idle"
    /\ LET unique_urls == UniqueUrls(urls) IN
       dl' = [pc |-> IF unique_urls = <<>> THEN "returned" ELSE "gather",
              urls |-> urls, unique_urls |-> unique_urls,
              sem |-> concurrency, limit |-> concurrency,
              task |-> [i \in 1..Len(unique_urls) |-> "waiting"]]
    /\ UNCHANGED <<feed, meta, stop_events, progress, db, run, now, last_call, disk>>

AcquireUnguarded(i) ==
    /\ dl.pc = "gather"
    /\ i \in 1..Len(dl.task)
    /\ dl.task[i] = "waiting"
    /\ \A j \in 1..(i - 1) : dl.task[j] # "waiting"
    /\ dl' = [dl EXCEPT !.sem = @ - 1, !.task[i] = "inflight"]
    /\ UNCHANGED <<feed, meta, stop_events, progress, db, run, now, last_call, disk>>

\* bound(u): `async with sem` entered, _download_one suspended in session.get.
\* gather starts the tasks in list order and the semaphore wakes its waiters in
\* arrival order, so permits are taken in list order.
Acquire(i) ==
    /\ dl.pc = "gather"
    /\ i \in 1..Len(dl.task)
    /\ dl.task[i] = "waiting"
    /\ \A j \in 1..(i - 1) : dl.task[j] # "waiting"
    /\ dl.sem > 0
    /\ dl' = [dl EXCEPT !.sem = @ - 1, !.task[i] = "inflight"]
    /\ UNCHANGED <<feed, meta, stop_events, progress, db, run, now, last_call, disk>>

\* _download_one returns (url, save_path, ok): a 200 image response written to
\* disk, or a bad status, a non-image content type, an exception or the 20 s
\* timeout; leaving `async with sem` releases the permit
Complete(i, ok) ==
    /\ dl.pc = "gather"
    /\ i \in 1..Len(dl.task)
    /\ dl.task[i] = "inflight"
    /\ \E res \in {download_one(disk, dl.unique_urls[i], IF ok THEN "ok" ELSE "error")} :
       /\ dl' = [dl EXCEPT !.sem = @ + 1,
                           !.task[i] = IF res.success THEN "ok" ELSE "failed"]
       /\ disk' = res.files
    /\ UNCHANGED <<feed, meta, stop_events, progress, db, run, now, last_call>>

\* asyncio.gather resolves once every task has returned
ReturnResults ==
    /\ dl.pc = "gather"
    /\ \A i \in 1..Len(dl.task) : dl.task[i] \in {"ok", "failed"}
    /\ dl' = [dl EXCEPT !.pc = "returned"]
    /\ UNCHANGED <<feed, meta, stop_events, progress, db, run, now, last_call, disk>>

NextDownload ==
    \/ \E urls \in UrlLists, c \in Concurrencies : CallDownload(urls, c)
    \/ \E i \in 1..MaxUrls : Acquire(i)
    \/ \E i \in 1..MaxUrls, ok \in BOOLEAN : Complete(i, ok)
    \/ ReturnResults

\* the event loop keeps running ready tasks, and every request ends within its
\* 20 second timeout
SpecDownload ==
    /\ InitCrawl
    /\ [][NextDownload]_vars
    /\ \A i \in 1..MaxUrls : WF_vars(Acquire(i))
    /\ \A i \in 1..MaxUrls : WF_vars(\E ok \in BOOLEAN : Complete(i, ok))
    /\ WF_vars(ReturnResults)

InFlight == {i \in 1..Len(dl.task) : dl.task[i] = "inflight"}

HasOutcome(i) == i \in 1..Len(dl.task) /\ dl.task[i] \in {"ok", "failed"}

\* C8: in a download_images call with concurrency c at most c downloads are in
\* flight at any moment, there is one task per distinct URL of the list, and
\* every task that waits is eventually attempted and ends with an outcome: the
\* call returns, at its return every task has an outcome, and until then no
\* task is dropped, skips its attempt or loses its outcome.
C8_BoundedConcurrency ==
    /\ [](Cardinality(InFlight) <= dl.limit)
    /\ [](/\ {dl.unique_urls[i] : i \in 1..Len(dl.unique_urls)} =
               {dl.urls[i] : i \in 1..Len(dl.urls)}
          /\ Cardinality({dl.unique_urls[i] : i \in 1..Len(dl.unique_urls)}) =
               Len(dl.unique_urls)
          /\ Len(dl.task) = Len(dl.unique_urls))
    /\ (dl.pc = "gather") ~> (dl.pc = "returned")
    /\ [](dl.pc = "returned" => \A i \in 1..Len(dl.task) : HasOutcome(i))
    /\ [][dl.pc = "gather" =>
            /\ Len(dl'.task) = Len(dl.task)
            /\ \A i \in 1..Len(dl.task) :
                  /\ HasOutcome(i) => dl'.task[i] = dl.task[i]
                  /\ (dl.task[i] = "waiting" /\ dl'.task[i] # "waiting") =>
                        dl'.task[i] = "inflight"
         ]_vars

\* more URLs than permits: the semaphore is full while another task waits
C8_Witness ==
    /\ dl.pc = "gather"
    /\ dl.limit = DefaultConcurrency
    /\ Cardinality(InFlight) = DefaultConcurrency
    /\ \E i \in 1..Len(dl.task) : dl.task[i] = "waiting"
    /\ Len(dl.urls) > Len(dl.unique_urls)

(* ============== the crawl loop when every request returns ============== *)
\* One run at a time for one owner, every page fetch returning a response.
NextStop ==
    \/ \E save_to_db \in BOOLEAN : StartRun(1, 1, save_to_db, TRUE)
    \/ FetchPage(1)
    \/ FetchNoData(1)
    \/ ProcessItem(1)
    \/ PersistPage(1)
    \/ RequestStop(1)

\* the event loop resumes the coroutine whenever its await has returned
SpecStop ==
    /\ InitCrawl
    /\ [][NextStop]_vars
    /\ WF_vars(FetchPage(1) \/ FetchNoData(1))
    /\ WF_vars(ProcessItem(1))
    /\ WF_vars(PersistPage(1))

Active(rn) == ~Ended(rn)

\* C11: a stop requested while a run is active makes the run end; the run ends
\* at the first page boundary it reaches with the signal set, after writing the
\* page's state, and issues no page request past that boundary.
C11_StopEventuallyHonoured ==
    /\ \A o \in Owners :
         (Active(run[1]) /\ run[1].host_mid = o /\ stop_events[o] = "set")
            ~> (run[1].pc \in {"stopped", "completed"})
    /\ [][\A r \in Runs :
            /\ (PersistPage(r) /\ stop_events[run[r].host_mid] = "set") =>
                  /\ run'[r].pc \in {"stopped", "completed"}
                  /\ run'[r].current_page = run[r].current_page
                  /\ meta'[run[r].host_mid].offset = OrEmpty(run[r].next_offset)
            /\ (Active(run[r]) /\ stop_events[run[r].host_mid] = "set"
                  /\ run'[r].current_page # run[r].current_page) =>
                  /\ run[r].pc = "request"
                  /\ run'[r].current_page = run[r].current_page + 1
                  /\ Active(run'[r])
            /\ (Active(run[r]) /\ stop_events[run[r].host_mid] = "set") =>
                  stop_events'[run[r].host_mid] = "set"
       ]_vars

\* the stop arrived while the second page was being fetched; that page was
\* processed in full and the run ended there, with a third page left unfetched
C11_Witness ==
    /\ run[1].pc = "stopped" /\ run[1].current_page = 2
    /\ run[1].save_to_db
    /\ Truthy(run[1].next_offset)
    /\ Cardinality(db.core) > PageSize
    /\ stop_events[1] = "set"

(* ================== claims on failures inside a page =================== *)
Raising(r) ==
    run[r].pc = "items" /\
    ItemRaises(db, run[r].host_mid, run[r].items[run[r].idx], run[r].save_media, now)

\* how the loop leaves a page boundary, from the cursor and the stop signal alone
BoundaryOutcome(r) ==
    IF ~Truthy(run[r].next_offset) THEN "completed"
    ELSE IF stop_events[run[r].host_mid] = "set" THEN "stopped" ELSE "request"

\* C12: when the harvest or the upsert of an item raises, the loop moves to the
\* next item of the page without writing; once the page is through, every item
\* that did not raise is in the store, also those after a raising one; the
\* page's cursor is written and the run leaves the boundary as the cursor and
\* the stop signal say; a run ends as an error only from a page request.
C12_BestEffortPerItem ==
    [][\A r \in Runs :
        /\ (ProcessItem(r) /\ Raising(r)) =>
              /\ db' = db /\ meta' = meta
              /\ run'[r].idx = run[r].idx + 1
              /\ run'[r].pc = IF run[r].idx = Len(run[r].items) THEN "persist" ELSE "items"
        /\ (ProcessItem(r) /\ run'[r].pc = "persist") =>
              /\ run'[r].idx = Len(run[r].items) + 1
              /\ \A i \in 1..Len(run[r].items) :
                    WellFormed(run[r].items[i]) =>
                        dynamic_core_exists(db', run[r].host_mid, ResolveId(run[r].items[i]))
        /\ PersistPage(r) =>
              /\ meta'[run[r].host_mid].offset = OrEmpty(run[r].next_offset)
              /\ run'[r].pc = BoundaryOutcome(r)
        /\ (run'[r].pc = "error" /\ run[r].pc # "error") => run[r].pc = "request"
       ]_vars

\* a page with an item whose harvest raised, followed by items that were stored;
\* the page's cursor is on file and the run is requesting the next page
C12_Witness ==
    /\ run[1].pc = "request" /\ run[1].current_page = 1 /\ run[1].save_to_db
    /\ \E i \in 1..Len(run[1].items) :
          /\ run[1].items[i].shape = "bad_emoji"
          /\ ~InStore(1, run[1].items[i])
          /\ i < Len(run[1].items)
          /\ \A j \in (i + 1)..Len(run[1].items) : InStore(1, run[1].items[j])
    /\ meta[1].offset = run[1].next_offset /\ Truthy(meta[1].offset)

NoIdentifier(item) ==
    ~Truthy(item.id_str) /\ ~Truthy(item.basic_id_str) /\ item.id = None

\* C13: an item that carries none of id_str, basic.id_str and id is skipped:
\* neither save_normalized_dynamic_item nor the crawl loop's per-item
\* persistence writes a row for it, and nothing is raised.
C13_NoIdentifierSkipped ==
    [][\A o \in Owners, item \in StoreItems :
          NoIdentifier(item) =>
              /\ SaveItem(o, item) => (db' = db /\ ~last_call'.raised)
              /\ \A pl \in PathLists, lpl \in LivePathLists :
                    IngestItem(o, item, pl, lpl) => (db' = db /\ ~last_call'.raised)]_vars

(* ================= claims on the control registry ====================== *)
\* C14: a stop request leaves the owner's signal set whether the signal was
\* absent, clear or already set, a second request changes nothing further, and
\* the step that sets a signal changes no other signal, no progress snapshot,
\* no state file, no run and no stored row.
C14_RequestStopIdempotent ==
    /\ [](\A o \in Owners :
            /\ SetStopEvent(stop_events, o)[o] = "set"
            /\ SetStopEvent(SetStopEvent(stop_events, o), o) = SetStopEvent(stop_events, o)
            /\ \A p \in Owners \ {o} : SetStopEvent(stop_events, o)[p] = stop_events[p])
    /\ [][\A o \in Owners :
            (stop_events'[o] = "set" /\ stop_events[o] # "set") =>
                /\ stop_events' = SetStopEvent(stop_events, o)
                /\ progress' = progress /\ meta' = meta /\ run' = run /\ db' = db]_vars

\* a stop was requested for an owner that never had a run or a signal
C14_Witness ==
    /\ stop_events[1] = "set"
    /\ run[1].pc = "idle" /\ progress[1] = NoProgress /\ meta[1] = DefaultMeta

\* C15: for an owner without a recorded snapshot get_progress answers page 0,
\* 0 items and an empty cursor, and the start of a run sets the owner's
\* snapshot to page 0 and 0 items whatever was there.
C15_ProgressDefaultsAndReset ==
    /\ [](\A o \in Owners :
            progress[o] = NoProgress =>
                /\ GetProgress(progress, o).page = 0
                /\ GetProgress(progress, o).total_items = 0
                /\ GetProgress(progress, o).last_offset = EmptyStr)
    /\ [][\A r \in Runs :
            Starts(r) =>
                /\ progress'[run'[r].host_mid] # NoProgress
                /\ GetProgress(progress', run'[r].host_mid).page = 0
                /\ GetProgress(progress', run'[r].host_mid).total_items = 0]_vars

\* a run that got through two pages was stopped; its successor has started and
\* the snapshot is back at page 0 with no items
C15_Witness ==
    /\ run[1].prev_end = "stopped" /\ run[1].pc = "request" /\ run[1].current_page = 0
    /\ run[1].params_offset = feed[1] - 2 * PageSize + 1
    /\ progress[1].page = 0 /\ progress[1].total_items = 0

(* ===================== two owners crawled at once ====================== *)
\* the two owners that crawl side by side, one coroutine each; the first is
\* crawled with save_to_db = true, the second with save_to_db = false
Crawlers == {1, 2}

\* both feeds hold a full page and a short second page
InitOwners ==
    /\ feed = [o \in Owners |-> PageSize + 2]
    /\ meta = [o \in Owners |-> DefaultMeta]
    /\ stop_events = [o \in Owners |-> "absent"]
    /\ progress = [o \in Owners |-> NoProgress]
    /\ db = EmptyDb
    /\ run = [r \in Runs |-> IdleRun]
    /\ now = 0
    /\ last_call = NoCall
    /\ dl = NoDownload
    /\ disk = {}

OwnerStep(x) ==
    \/ StartRun(x, x, x = 1, TRUE)
    \/ FetchPage(x)
    \/ FetchFail(x)
    \/ ProcessItem(x)
    \/ PersistPage(x)
    \/ RequestStop(x)

NextOwners == \E x \in Crawlers : OwnerStep(x)

SpecOwners == InitOwners /\ [][NextOwners]_vars

ControlState(o) == <<stop_events[o], progress[o], meta[o]>>

\* C16: a start, a page step or a stop request of owner x leaves the stop
\* signal, the progress snapshot and the state file of every other owner as
\* they were; whenever these change for an owner, the step is that owner's.
C16_OwnerIsolation ==
    [][/\ \A x \in Crawlers : OwnerStep(x) =>
              \A y \in Owners \ {x} : ControlState(y)' = ControlState(y)
       /\ \A y \in Owners : ControlState(y)' # ControlState(y) =>
              \/ stop_events' = SetStopEvent(stop_events, y)
              \/ \E r \in Runs : run'[r] # run[r] /\ run'[r].host_mid = y
      ]_vars

\* owner 1 was stopped after its first page while owner 2, started later and
\* not stopped, is past its first page and requesting the second
C16_Witness ==
    /\ run[1].pc = "stopped" /\ run[1].host_mid = 1 /\ stop_events[1] = "set"
    /\ run[2].pc = "request" /\ run[2].host_mid = 2 /\ run[2].current_page = 1
    /\ stop_events[2] = "clear"
    /\ progress[1].message = "user_stopped" /\ progress[2].message = "prepare_next"
    /\ ~meta[1].fully_fetched /\ meta[2].offset = run[2].next_offset

(* ========================= collect_image_urls ========================== *)
\* JSON values of an item: objects and arrays as tagged maps from key (or
\* index, as the walk names it with str(idx)) to value, strings as the URL
\* traits the extractor looks at, other text as such.
Dict(f) == [t |-> "dict", v |-> f]
List(f) == [t |-> "list", v |-> f]
Str(u)  == [t |-> "str", v |-> u]
Text(x) == [t |-> "text", v |-> x]

\* a string: starts with http(s)://, names an image extension, has /bfs/ in it,
\* has /face/ in it; n tells URLs apart
Url(http, ext, bfs, face, n) ==
    [http |-> http, ext |-> ext, bfs |-> bfs, face |-> face, n |-> n]

\* str.lower() on the keys that occur
Lower(k) == IF k = "Avatar" THEN "avatar" ELSE IF k = "Label" THEN "label" ELSE k

\* _looks_like_image_url
looks_like_image_url(u) == u.http /\ (u.ext \/ u.bfs)

AvatarKeysNoFace == {"avatar", "avatar_subscript_url"}

AvatarKeys == {"avatar", "face", "avatar_subscript_url"}

LabelKeys == {"label"}

DecorateKeys == {"decorate", "decorate_card", "decoration_card"}

InteractionKeys == {"module_interaction"}

LabelUriKeys == {"img_label_uri_hans", "img_label_uri_hans_static",
                 "img_label_uri_hant", "img_label_uri_hant_static", "label_theme"}

PathHas(path, keys) == \E i \in 1..Len(path) : Lower(path[i]) \in keys

\* is_emoji_context
is_emoji_context(obj) ==
    /\ obj.t = "dict"
    /\ \/ "type" \in DOMAIN obj.v /\ obj.v["type"] = Text("RICH_TEXT_NODE_TYPE_EMOJI")
       \/ /\ "emoji" \in DOMAIN obj.v
          /\ obj.v["emoji"].t = "dict"
          /\ "icon_url" \in DOMAIN obj.v["emoji"].v
          /\ "text" \in DOMAIN obj.v["emoji"].v

\* _walk_collect_urls, returning what it adds to the collector
RECURSIVE walk_collect_urls(_, _)
walk_collect_urls(obj, path) ==
    IF \/ PathHas(path, LabelKeys) \/ PathHas(path, AvatarKeys)
       \/ PathHas(path, DecorateKeys) \/ PathHas(path, InteractionKeys)
       \/ is_emoji_context(obj)
    THEN {}
    ELSE IF obj.t = "dict"
    THEN UNION {walk_collect_urls(obj.v[k], Append(path, k)) :
                   k \in {k \in DOMAIN obj.v : Lower(k) \notin LabelUriKeys}}
    ELSE IF obj.t = "list"
    THEN UNION {walk_collect_urls(obj.v[k], Append(path, k)) : k \in DOMAIN obj.v}
    ELSE IF obj.t = "str"
    THEN IF looks_like_image_url(obj.v) /\ ~obj.v.face THEN {obj.v} ELSE {}
    ELSE {}

\* collect_image_urls: list(urls) of the collected set
collect_image_urls(item) == walk_collect_urls(item, <<>>)

\* the value wrapped in depth arrays
RECURSIVE Nested(_, _)
Nested(node, depth) == IF depth = 0 THEN node ELSE List("0" :> Nested(node, depth - 1))

\* the ways a URL hangs below a key: bare, as {"url": ...}, inside arrays, or as
\* the icon of an emoji rich-text node
Hang(u, how, depth) ==
    Nested(IF how = "bare" THEN Str(u)
           ELSE IF how = "object" THEN Dict("url" :> Str(u))
           ELSE Dict(("type" :> Text("RICH_TEXT_NODE_TYPE_EMOJI")) @@
                     ("emoji" :> Dict(("icon_url" :> Str(u)) @@ ("text" :> Text("[doge]"))))),
           depth)

AuthorParts ==
    {k :> Hang(Url(TRUE, TRUE, TRUE, f, 1), how, 0) :
        k \in {"avatar", "face", "Avatar"}, f \in BOOLEAN, how \in {"bare", "object"}}

LabelParts ==
    {"label" :> Hang(Url(TRUE, TRUE, FALSE, FALSE, 2), how, 0) : how \in {"bare", "object"}}

OtherParts ==
    {k :> Hang(Url(h, e, b, f, 3), how, d) :
        k \in {"cover", "decorate", "module_interaction", "img_label_uri_hans"},
        h \in BOOLEAN, e \in BOOLEAN, b \in BOOLEAN, f \in BOOLEAN,
        how \in {"bare", "object", "emoji"}, d \in 0..MaxNest}

\* items with an avatar and a label image, and possibly one more URL elsewhere
ExtractItems ==
    {Dict("modules" :> Dict(("module_author" :> Dict(a)) @@ ("module_dynamic" :> Dict(l))))
        : a \in AuthorParts, l \in LabelParts}
    \cup
    {Dict("modules" :> Dict(("module_author" :> Dict(a)) @@ ("module_dynamic" :> Dict(l @@ x))))
        : a \in AuthorParts, l \in LabelParts, x \in OtherParts}

\* one call of collect_image_urls, on any of the items
CollectCall(item) ==
    /\ last_call = NoCall
    /\ last_call' = [op |-> "collect_image_urls", item |-> item,
                     urls |-> collect_image_urls(item)]
    /\ UNCHANGED <<feed, meta, stop_events, progress, db, run, now, dl, disk>>

NextExtract == \E item \in ExtractItems : CollectCall(item)

SpecExtract == InitCrawl /\ [][NextExtract]_vars

\* every string of the item with the keys above it and whether an object above
\* it is an emoji node
RECURSIVE Leaves(_, _, _)
Leaves(obj, path, emo) ==
    IF obj.t \in {"dict", "list"}
    THEN UNION {Leaves(obj.v[k], Append(path, k), emo \/ is_emoji_context(obj)) :
                   k \in DOMAIN obj.v}
    ELSE IF obj.t = "str" THEN {[path |-> path, url |-> obj.v, emo |-> emo]}
    ELSE {}

ImageShaped(item) == {l \in Leaves(item, <<>>, FALSE) : l.url.http /\ (l.url.ext \/ l.url.bfs)}

OutsideAvatarLabel(item) ==
    {l \in ImageShaped(item) : ~PathHas(l.path, {"avatar", "face", "label"})}

Qualifying(l) ==
    /\ ~l.url.face /\ ~l.emo
    /\ ~PathHas(l.path, DecorateKeys \cup InteractionKeys \cup LabelUriKeys
                        \cup {"avatar_subscript_url"})

\* C17: collect_image_urls returns nothing for an item whose image-shaped URLs
\* all sit under an avatar, face or label key, and exactly the one URL for an
\* item that has, besides those, a single qualifying image URL elsewhere.
C17_ExtractorExclusion ==
    last_call.op = "collect_image_urls" =>
        LET item == last_call.item
            out  == OutsideAvatarLabel(item) IN
        /\ out = {} => last_call.urls = {}
        /\ (Cardinality(out) = 1 /\ \A l \in out : Qualifying(l)) =>
              last_call.urls = {l.url : l \in out}

\* an item with an image under "face" whose address has no /face/ in it, a label
\* image, and one cover image two arrays deep: the call returned the cover only
C17_Witness ==
    /\ last_call.op = "collect_image_urls"
    /\ \E l \in ImageShaped(last_call.item) :
          /\ PathHas(l.path, {"face"}) /\ ~l.url.face
    /\ \E l \in ImageShaped(last_call.item) : PathHas(l.path, {"label"})
    /\ \E l \in OutsideAvatarLabel(last_call.item) :
          /\ Qualifying(l) /\ Len(l.path) > 4
          /\ last_call.urls = {l.url}

(* ================= claims on restarts and the dedup policy ============= *)
\* the item run r is about to handle goes through harvest and upsert
Ingests(r) ==
    /\ ProcessItem(r)
    /\ StrTruthy(ResolveId(run[r].items[run[r].idx]))
    /\ ~ItemRaises(db, run[r].host_mid, run[r].items[run[r].idx], run[r].save_media, now)

\* C18: a run started after a run of the same owner was stopped by the user
\* hands no item to harvest and upsert that is already in the Feed Store, also
\* when the stopped run had started from the head.
C18_NoReprocessingAfterStop ==
    [][\A r \in Runs :
          (Ingests(r) /\ run[r].prev_end = "stopped") =>
              ~InStore(run[r].host_mid, run[r].items[run[r].idx])]_vars

\* the duplicate threshold is reached on the page run r receives in this step
ThresholdHit(r) ==
    /\ FetchPage(r)
    /\ DedupArmed(run[r])
    /\ run[r].consecutive_duplicates < DupThreshold
    /\ run'[r].consecutive_duplicates >= DupThreshold

\* positions of the page at which a run of stored items, counted with the
\* duplicates carried into the page, reaches the threshold
StreakEnds(o, items, carried) ==
    {i \in 1..Len(items) :
        \E a \in 1..i :
            /\ \A k \in a..i : InStore(o, items[k])
            /\ (i - a + 1) + (IF a = 1 THEN carried ELSE 0) >= DupThreshold}

\* C19: when the duplicate threshold is reached inside a page of a from-head
\* run, the items of that page that come before the end of the duplicate
\* streak and are not yet in the Feed Store stay in the page's list for
\* persistence; only the streak and what follows it are dropped.
C19_EarlyTerminationKeepsNewItems ==
    [][\A r \in Runs :
          ThresholdHit(r) =>
              LET page == ExpectedPage(r).items
                  ends == StreakEnds(run[r].host_mid, page, run[r].consecutive_duplicates) IN
              /\ ends # {}
              /\ \A i \in 1..Len(page) :
                    ((\A e \in ends : i < e) /\ WellFormed(page[i])
                        /\ ~InStore(run[r].host_mid, page[i])) =>
                        \E j \in 1..Len(run'[r].items) : run'[r].items[j] = page[i]]_vars

DedupPolicy(r, armed) ==
    /\ Starts(r) =>
          /\ run'[r].start_from_head = meta[run'[r].host_mid].fully_fetched
          /\ run'[r].start_from_head => run'[r].params_offset = NoOffsetParam
    /\ FetchPage(r) =>
          LET page == ExpectedPage(r) IN
          IF armed /\ StreakEnds(run[r].host_mid, page.items,
                                 run[r].consecutive_duplicates) # {}
          THEN run'[r].items = <<>> /\ run'[r].next_offset = None
          ELSE run'[r].items = page.items /\ run'[r].next_offset = page.offset.v

PageReported(r) == run[r].pc = "request" /\ run'[r].pc \in {"items", "persist"}

\* run r writes the state file for its page in this step
StateWritten(r) == run[r].pc = "persist" /\ run'[r].pc # "persist"

\* every item of the list that can be stored is in store d
AllStored(d, host_mid, items) ==
    \A i \in 1..Len(items) :
        WellFormed(items[i]) => dynamic_core_exists(d, host_mid, ResolveId(items[i]))

ReportsPage(p, rn) ==
    /\ p[rn.host_mid] # NoProgress
    /\ p[rn.host_mid].message = "page_done"
    /\ p[rn.host_mid].page = rn.current_page
    /\ p[rn.host_mid].total_items = Len(rn.all_items)

StartDownload(urls, concurrency) ==
    LET unique_urls == UniqueUrls(urls) IN
    [pc |-> IF unique_urls = <<>> THEN "returned" ELSE "gather",
     urls |-> urls, unique_urls |-> unique_urls,
     sem |-> concurrency, limit |-> concurrency,
     task |-> [i \in 1..Len(unique_urls) |-> "waiting"]]

\* the item run r is about to handle gets as far as `await download_images`
HasImages(r) ==
    /\ run[r].pc = "items"
    /\ StrTruthy(ResolveId(run[r].items[run[r].idx]))
    /\ run[r].save_media
    /\ run[r].items[run[r].idx].images # <<>>

BeginHarvestDetached(r) ==
    LET rn   == run[r]
        item == rn.items[rn.idx]
    IN
    /\ HasImages(r)
    /\ dl' = StartDownload(item.images, DefaultConcurrency)
    /\ db' = PersistItem(db, rn.host_mid, item,
                         PredictedLocals(item, rn.save_media, {}),
                         LivePredictedLocals(item, rn.save_media, {}), now)
    /\ run' = [run EXCEPT ![r].idx = rn.idx + 1,
                          ![r].pc = IF rn.idx = Len(rn.items) THEN "persist" ELSE "items"]
    /\ UNCHANGED <<feed, meta, stop_events, progress, now, last_call, disk>>

\* An item with images: the paths are predicted and the coroutine suspends in
\* `results = await download_images(image_urls, item_dir)`.
BeginHarvest(r) ==
    LET rn   == run[r]
        item == rn.items[rn.idx]
    IN
    /\ HasImages(r)
    /\ dl' = StartDownload(item.images, DefaultConcurrency)
    /\ run' = [run EXCEPT ![r].pc = "harvest"]
    /\ UNCHANGED <<feed, meta, stop_events, progress, db, now, last_call, disk>>

\* download_images has returned: the rest of the item's try block, that is the
\* live and emoji harvest, the upsert and the write-back of the paths
FinishItem(r) ==
    LET rn   == run[r]
        item == rn.items[rn.idx]
    IN
    /\ rn.pc = "harvest"
    /\ dl.pc = "returned"
    /\ db' = IF ~HarvestRaises(item, rn.save_media)
             THEN PersistItem(db, rn.host_mid, item,
                              PredictedLocals(item, rn.save_media, {}),
                              LivePredictedLocals(item, rn.save_media, {}), now)
             ELSE db
    /\ run' = [run EXCEPT ![r].idx = rn.idx + 1,
                          ![r].pc = IF rn.idx = Len(rn.items) THEN "persist" ELSE "items"]
    /\ UNCHANGED <<feed, meta, stop_events, progress, now, last_call, dl, disk>>

\* an item that reaches no download call is handled without suspending
PlainItem(r) == ~HasImages(r) /\ ProcessItem(r)

\* One owner crawled by one coroutine, the image downloads of its items shown
\* task by task.
NextPage ==
    \/ \E save_to_db \in BOOLEAN : StartRun(1, 1, save_to_db, TRUE)
    \/ FetchPage(1)
    \/ FetchFail(1)
    \/ PlainItem(1)
    \/ BeginHarvest(1)
    \/ \E i \in 1..MaxUrls : Acquire(i)
    \/ \E i \in 1..MaxUrls, ok \in BOOLEAN : Complete(i, ok)
    \/ ReturnResults
    \/ FinishItem(1)
    \/ PersistPage(1)
    \/ RequestStop(1)

SpecPage == InitCrawl /\ [][NextPage]_vars

\* a download task of the current call has been created and has not returned
DownloadRunning == dl.pc = "gather"

\* run r has handled every item of the page it holds
PageWorkDone(r) ==
    /\ ~DownloadRunning
    /\ PersistStage(run[r].save_to_db, run[r].items) =>
          /\ run[r].idx = Len(run[r].items) + 1
          /\ AllStored(db, run[r].host_mid, run[r].items)

\* C22: downloads run only while the run is suspended inside an item of its
\* current page; the request for the next page is issued, and the state file
\* of a page is written, only when no download is running and every item of
\* the page has been handled.
C22_IntraPageConcurrency ==
    /\ [](DownloadRunning =>
            /\ run[1].pc = "harvest"
            /\ run[1].idx \in 1..Len(run[1].items)
            /\ dl.urls = run[1].items[run[1].idx].images)
    /\ [][\A r \in Runs :
            /\ StateWritten(r) => PageWorkDone(r)
            /\ (run'[r].pc = "request" /\ run[r].pc # "request") =>
                  ~DownloadRunning /\ (run[r].current_page > 0 => PageWorkDone(r))
            /\ PageReported(r) =>
                  ~DownloadRunning /\ (run[r].current_page > 0 => PageWorkDone(r))
       ]_vars

\* on the second page of a storing run an image download is in flight; the
\* state file holds the cursor written after the first page
C22_Witness ==
    /\ run[1].pc = "harvest" /\ run[1].current_page = 2 /\ run[1].save_to_db
    /\ DownloadRunning /\ InFlight # {}
    /\ Truthy(meta[1].offset) /\ meta[1].offset # OrEmpty(run[1].next_offset)
    /\ \E i \in 1..(run[1].idx - 1) : InStore(1, run[1].items[i])

(* ================= claims on how a run ends ============================ *)
\* the data section auto_fetch_all returns once its loop is left
ReturnValue(rn) ==
    [has_more |-> Truthy(rn.next_offset),
     items |-> rn.all_items,
     offset |-> OrEmpty(rn.next_offset),
     fully_fetched |-> PageMeta(rn.next_offset, 0).fully_fetched]

\* C23: a run whose page has an empty next cursor ends as a normal completion,
\* with fully_fetched = true written and returned and has_more = false, whether
\* or not the stop signal is set; the stop signal decides how the boundary is
\* left only when the next cursor is non-empty.
C23_TerminalCheckFirst ==
    [][\A r \in Runs :
        StateWritten(r) =>
            LET o == run[r].host_mid IN
            IF ~Truthy(run[r].next_offset)
            THEN /\ run'[r].pc = "completed"
                 /\ meta'[o].fully_fetched /\ meta'[o].offset = EmptyStr
                 /\ ReturnValue(run'[r]).fully_fetched
                 /\ ~ReturnValue(run'[r]).has_more
                 /\ progress'[o].message = "all_done"
            ELSE /\ run'[r].pc = IF stop_events[o] = "set" THEN "stopped" ELSE "request"
                 /\ ~meta'[o].fully_fetched /\ meta'[o].offset = run[r].next_offset
                 /\ progress'[o].message =
                       IF stop_events[o] = "set" THEN "user_stopped" ELSE "prepare_next"
       ]_vars

\* a run that crawled the feed to its last page ended as completed although the
\* stop signal is set
C23_Witness ==
    /\ run[1].pc = "completed" /\ run[1].current_page = 3
    /\ stop_events[1] = "set"
    /\ meta[1].fully_fetched /\ meta[1].offset = EmptyStr
    /\ progress[1].message = "all_done"
    /\ ~ReturnValue(run[1]).has_more

(* ===================== claims on the progress snapshot ================= *)
\* C24: each page a run fetches raises the snapshot's page counter by exactly
\* one and its item total by the number of the page's surviving items, so the
\* total is the sum over the run's pages; within a run neither value decreases.
C24_ProgressAccounting ==
    [][\A r \in Runs :
        LET o == run[r].host_mid IN
        /\ PageReported(r) =>
              /\ progress'[o].page = progress[o].page + 1
              /\ progress'[o].page = run'[r].current_page
              /\ progress'[o].total_items = progress[o].total_items + Len(run'[r].items)
              /\ progress'[o].total_items = Len(run'[r].all_items)
              /\ Len(run'[r].items) \in {0, Len(ExpectedPage(r).items)}
        /\ Active(run[r]) =>
              /\ progress'[o].page >= progress[o].page
              /\ progress'[o].total_items >= progress[o].total_items
              /\ (~PageReported(r)) =>
                    /\ progress'[o].page = progress[o].page
                    /\ progress'[o].total_items = progress[o].total_items
       ]_vars

\* a from-head run reported two pages; the second lost its items to the
\* duplicate threshold, so the total still counts the first page only
C24_Witness ==
    /\ run[1].start_from_head /\ run[1].save_to_db
    /\ run[1].current_page = 2 /\ progress[1].page = 2
    /\ run[1].items = <<>> /\ run[1].consecutive_duplicates >= DupThreshold
    /\ progress[1].total_items = Len(run[1].all_items)
    /\ progress[1].total_items > 0

(* ================= single assets and the files on disk ================= *)
MaxAssets == 2

MediaUrls == 1..MaxAssets

EmojiTexts == 1..(2 * MaxAssets)

AssetPaths ==
    {ImagePath(u) : u \in MediaUrls} \cup {LiveImagePath(u) : u \in MediaUrls}
        \cup {LiveVideoPath(u) : u \in MediaUrls} \cup {EmojiPath(t) : t \in EmojiTexts}

\* any of the files may be there from an earlier harvest
InitFiles ==
    /\ feed = [o \in Owners |-> FeedMax - FeedGrowth]
    /\ meta = [o \in Owners |-> DefaultMeta]
    /\ stop_events = [o \in Owners |-> "absent"]
    /\ progress = [o \in Owners |-> NoProgress]
    /\ db = EmptyDb
    /\ run = [r \in Runs |-> IdleRun]
    /\ now = 0
    /\ last_call = NoCall
    /\ dl = NoDownload
    /\ disk \in SUBSET AssetPaths

\* the call's outcome as its caller and the transport see it
AssetCall(op, res) ==
    [op |-> op, requests |-> res.requests, paths |-> res.paths, success |-> res.success]

DownloadOneCall(url, resp) ==
    /\ last_call = NoCall
    /\ LET res == download_one(disk, url, resp) IN
       /\ disk' = res.files
       /\ last_call' = AssetCall("_download_one", res)
    /\ UNCHANGED <<feed, meta, stop_events, progress, db, run, now, dl>>

DownloadLiveCall(image_url, video_url, resp_i, resp_v) ==
    /\ last_call = NoCall
    /\ LET res == download_live_media_one(disk, image_url, video_url, resp_i, resp_v) IN
       /\ disk' = res.files
       /\ last_call' = AssetCall("_download_live_media", res)
    /\ UNCHANGED <<feed, meta, stop_events, progress, db, run, now, dl>>

DownloadEmojiCall(emoji_url, emoji_text, resp) ==
    /\ last_call = NoCall
    /\ LET res == download_emoji_one(disk, emoji_url, emoji_text, resp) IN
       /\ disk' = res.files
       /\ last_call' = AssetCall("_download_emoji", res)
    /\ UNCHANGED <<feed, meta, stop_events, progress, db, run, now, dl>>

NextFiles ==
    \/ \E u \in MediaUrls, resp \in Responses : DownloadOneCall(u, resp)
    \/ \E iu \in MediaUrls, vu \in MediaUrls, ri \in Responses, rv \in Responses :
          DownloadLiveCall(iu, vu, ri, rv)
    \/ \E u \in MediaUrls, t \in EmojiTexts, resp \in Responses : DownloadEmojiCall(u, t, resp)

SpecFiles == InitFiles /\ [][NextFiles]_vars

\* C25: an image, live-pair or emoji download whose file or files are already
\* at the predicted local path issues no request, leaves the disk as it is and
\* reports success.
C25_SkipExistingFiles ==
    [][(last_call = NoCall /\ last_call' # NoCall /\ last_call'.paths \subseteq disk) =>
          /\ last_call'.requests = <<>>
          /\ last_call'.success
          /\ disk' = disk]_vars

\* the same for live pairs and emoji only, where the code looks at the disk
LiveAndEmojiSkipExisting ==
    [][(last_call = NoCall /\ last_call' # NoCall /\ last_call'.paths \subseteq disk
          /\ last_call'.op # "_download_one") =>
          /\ last_call'.requests = <<>>
          /\ last_call'.success
          /\ disk' = disk]_vars

(* ============== the duplicate counter across page boundaries =========== *)
\* the number of stored items that open the list
LeadingStored(o, items) ==
    CHOOSE j \in 0..Len(items) :
        /\ \A i \in 1..j : InStore(o, items[i])
        /\ j = Len(items) \/ ~InStore(o, items[j + 1])

ManualPages == {0, 1, 2}

\* The fetch loop of get_space_dynamic on a feed whose newest item is n: the
\* items of the pages it fetched and the cursor of the last one.
RECURSIVE SpaceCrawl(_, _, _, _, _)
SpaceCrawl(n, params_offset, pages, current_page, all_items) ==
    LET resp        == PageResponse(n, params_offset, PageSize, FALSE)
        next_offset == NormalizeOffset(resp.offset)
        all         == all_items \o resp.items
        page        == current_page + 1
        done        == IF pages = 0 THEN ~Truthy(next_offset)
                       ELSE page >= Max(1, pages) \/ ~Truthy(next_offset)
    IN
    IF done THEN [items |-> all, next_offset |-> next_offset]
    ELSE SpaceCrawl(n, ParamsOffset(next_offset), pages, page, all)

\* the record get_space_dynamic writes: the new cursor, fully_fetched as on file
SpaceMeta(old, next_offset, t) ==
    [last_fetch_time |-> t, offset |-> OrEmpty(next_offset),
     fully_fetched |-> old.fully_fetched]

\* One pass of the per-item loop of get_space_dynamic.
PersistOne(d, host_mid, item, save_media, t) ==
    IF StrTruthy(ResolveId(item)) /\ ~HarvestRaises(item, save_media)
    THEN PersistItem(d, host_mid, item, PredictedLocals(item, save_media, {}),
                     LivePredictedLocals(item, save_media, {}), t)
    ELSE d

\* get_space_dynamic(host_mid, pages, save_to_db, save_media) in coroutine slot
\* r, up to its item loop: the fetch loop, then with save_to_db the state file.
\* Without save_to_db it returns what it fetched.
ManualFetch(r, o, pages, save_to_db, save_media) ==
    /\ Ended(run[r])
    /\ \E res \in {SpaceCrawl(feed[o], NoOffsetParam, pages, 0, <<>>)} :
          IF save_to_db
          THEN /\ meta' = [meta EXCEPT ![o] = SpaceMeta(meta[o], res.next_offset, now)]
               /\ run' = [run EXCEPT ![r] =
                    IF res.items = <<>> THEN IdleRun
                    ELSE [IdleRun EXCEPT !.pc = "manual_items", !.host_mid = o,
                                         !.save_to_db = TRUE, !.save_media = save_media,
                                         !.next_offset = res.next_offset,
                                         !.items = res.items, !.idx = 1]]
          ELSE UNCHANGED <<meta, run>>
    /\ UNCHANGED <<feed, stop_events, progress, db, now, last_call, dl, disk>>

\* one pass of the item loop of get_space_dynamic; after the last it returns
ManualItem(r) ==
    LET rn == run[r] IN
    /\ rn.pc = "manual_items"
    /\ db' = PersistOne(db, rn.host_mid, rn.items[rn.idx], rn.save_media, now)
    /\ run' = [run EXCEPT ![r] = IF rn.idx = Len(rn.items) THEN IdleRun
                                 ELSE [rn EXCEPT !.idx = rn.idx + 1]]
    /\ UNCHANGED <<feed, meta, stop_events, progress, now, last_call, dl, disk>>

\* One owner: automatic runs one at a time in slot 1, manual fetches one at a
\* time in slot 2.
NextManual ==
    \/ \E save_to_db \in BOOLEAN : StartRun(1, 1, save_to_db, TRUE)
    \/ FetchPage(1)
    \/ ProcessItem(1)
    \/ PersistPage(1)
    \/ RequestStop(1)
    \/ \E pages \in ManualPages, save_to_db \in BOOLEAN :
          ManualFetch(2, 1, pages, save_to_db, TRUE)
    \/ ManualItem(2)

SpecManual == InitCrawl /\ [][NextManual]_vars

\* C27: every record written to an owner's state file, by auto_fetch_all or
\* by get_space_dynamic in any order, has fully_fetched = true exactly when its
\* cursor is empty.
C27_StateInvariantAllWriters ==
    [][\A o \in Owners :
          meta'[o] # meta[o] =>
              (meta'[o].fully_fetched <=> meta'[o].offset = EmptyStr)]_vars

(* ================= responses without a data section ==================== *)
\* run r holds a page that came without items and without a cursor although
\* the duplicate threshold was not reached: a response with no data section
AfterNoData(r) ==
    /\ run[r].pc = "persist"
    /\ run[r].items = <<>> /\ ~Truthy(run[r].next_offset)
    /\ run[r].consecutive_duplicates < DupThreshold

\* the page run r holds ends with the oldest item of the owner's feed
FeedExhausted(r) ==
    /\ run[r].items # <<>>
    /\ ResolveId(run[r].items[Len(run[r].items)]) = 1

\* C28: fully_fetched = true is written only when the page reached the end
\* of the feed or the duplicate threshold fired; after a response without a
\* usable data section the stored cursor and flag stay as they were.
C28_NoDataKeepsState ==
    [][\A r \in Runs :
        LET o == run[r].host_mid IN
        /\ (StateWritten(r) /\ meta'[o].fully_fetched) =>
              \/ FeedExhausted(r)
              \/ DedupArmed(run[r]) /\ run[r].consecutive_duplicates >= DupThreshold
        /\ (StateWritten(r) /\ AfterNoData(r)) =>
              /\ meta'[o].offset = meta[o].offset
              /\ meta'[o].fully_fetched = meta[o].fully_fetched
       ]_vars

(* ============== two runs of one owner at the same time ================= *)
\* auto_fetch_all called for owner 1 while a run for owner 1 is under way:
\* coroutine x works on the owner's one stop event, progress entry and state
\* file; the run in slot 1 stores, the one in slot 2 does not
OverlapStep(x) ==
    \/ StartRun(x, 1, x = 1, TRUE)
    \/ FetchPage(x)
    \/ ProcessItem(x)
    \/ PersistPage(x)

NextOverlap == (\E x \in Crawlers : OverlapStep(x)) \/ RequestStop(1)

SpecOverlap == InitOwners /\ [][NextOverlap]_vars

\* C29: a stop requested while a run is active stays pending until that run
\* reaches its page boundary, also when another run of the owner starts in
\* between, and at the boundary the run ends.
C29_StopSurvivesSecondStart ==
    [][\A r \in Runs :
        LET o == run[r].host_mid IN
        /\ (Active(run[r]) /\ stop_events[o] = "set" /\ ~StateWritten(r)) =>
              stop_events'[o] = "set"
        /\ (StateWritten(r) /\ stop_events[o] = "set") =>
              run'[r].pc \in {"stopped", "completed"}
       ]_vars

(* ================== the cursor and what was stored ===================== *)
\* C30: when a run writes the state file for a page, in a run started with
\* save_to_db = false as in any other, the page's surviving items that the
\* store accepts are in the Feed Store: the cursor never moves past items
\* that were not handed to the store.
C30_CursorNeverPassesUnstored ==
    [][\A r \in Runs :
          StateWritten(r) => AllStored(db, run[r].host_mid, run[r].items)]_vars

\* the same for the runs that store
CursorNeverPassesUnstoredWhenStoring ==
    [][\A r \in Runs :
          (StateWritten(r) /\ run[r].save_to_db) =>
              AllStored(db, run[r].host_mid, run[r].items)]_vars

====
